---- MODULE Spec2Model ----
(***************************************************************************)
(* Model of the shared-struct / shared-enum code generators of             *)
(* swift-bridge-ir:                                                        *)
(*   crates/swift-bridge-ir/src/bridged_type/shared_struct.rs              *)
(*   crates/swift-bridge-ir/src/codegen/generate_rust_tokens/shared_enum.rs*)
(* and of the code they generate (enum conversions, Option wrapper).       *)
(*                                                                         *)
(* Generated Rust tokens and Swift/C text are modelled as "code" records   *)
(*   [pre |-> tokens, args |-> token sequences, sep, post |-> tokens]      *)
(* whose rendering is pre, the args separated by sep, post.  A token is a  *)
(* string.  A todo!() in the generator is the value Panic.                 *)
(***************************************************************************)
EXTENDS Integers, Sequences, FiniteSets, TLC

VARIABLES decl, other, expr, op, out, nat, abi, back, opt, ub

vars == <<decl, other, expr, op, out, nat, abi, back, opt, ub>>

(***************************************************************************)
(* Bounds                                                                  *)
(***************************************************************************)
MaxFields == 3          \* longest field list of a struct or tuple
MaxVariants == 2        \* most variants of an enum

(***************************************************************************)
(* Generic helpers on sequences                                            *)
(***************************************************************************)
SeqsUpTo(S, n) == UNION {[1..k -> S] : k \in 0..n}

\* a.join(sep) on a Vec<String>
RECURSIVE JoinStr(_, _)
JoinStr(ss, sep) ==
  IF ss = <<>> THEN ""
  ELSE IF Len(ss) = 1 THEN ss[1]
  ELSE ss[1] \o sep \o JoinStr(Tail(ss), sep)

\* #(#items),* of quote! (sep ","), Vec<String>::join(sep) on text pieces
RECURSIVE JoinTokens(_, _)
JoinTokens(items, sep) ==
  IF items = <<>> THEN <<>>
  ELSE IF Len(items) = 1 THEN items[1]
  ELSE items[1] \o <<sep>> \o JoinTokens(Tail(items), sep)

Code(pre, args, sep, post) == [pre |-> pre, args |-> args, sep |-> sep, post |-> post]

\* the token stream / text a code record stands for
Render(c) == c.pre \o JoinTokens(c.args, c.sep) \o c.post

\* number of occurrences of token t in a token sequence
Count(toks, t) == Cardinality({i \in 1..Len(toks) : toks[i] = t})

Ret(v) == [tag |-> "ok", val |-> v]
Some(v) == [tag |-> "Some", val |-> v]
None == [tag |-> "None"]
Panic == [tag |-> "panic"]
PanicStr == "!panic"

(***************************************************************************)
(* The type classifier (BridgedType), external to the two generators.      *)
(***************************************************************************)
SWIFT_BRIDGE_PREFIX == "__swift_bridge__"

\* field types of the schema: a pass-through scalar, owned text, and two
\* shared structs declared by the user under the names A and AA
FieldTypes == {"i32", "String", "A", "AA"}

\* BridgedType::to_rust_type_path(..).to_string(): the native type token
BT_to_rust_type_path(ty) == ty

\* BridgedType::to_swift_type
BT_to_swift_type(ty) ==
  CASE ty = "i32" -> "Int32"
    [] ty = "String" -> "RustString"
    [] OTHER -> ty

\* BridgedType::to_c
BT_to_c(ty) ==
  CASE ty = "i32" -> "int32_t"
    [] ty = "String" -> "void*"
    [] OTHER -> "struct " \o SWIFT_BRIDGE_PREFIX \o "$" \o ty

\* BridgedType::to_ffi_compatible_rust_type
BT_to_ffi_compatible_rust_type(ty) ==
  CASE ty = "i32" -> <<"i32">>
    [] ty = "String" -> <<"*mut", "swift_bridge", "::", "string", "::", "RustString">>
    [] OTHER -> <<SWIFT_BRIDGE_PREFIX \o ty>>

\* BridgedType::convert_rust_expression_to_ffi_type: native -> ABI
BT_convert_rust_expression_to_ffi_type(ty, e) ==
  CASE ty = "i32" -> e
    [] ty = "String" ->
         <<"swift_bridge", "::", "string", "::", "RustString", "(">> \o e
           \o <<")", ".", "box_into_raw", "(", ")">>
    [] OTHER -> e \o <<".", "into_ffi_repr", "(", ")">>

\* BridgedType::convert_ffi_expression_to_rust_type: ABI -> native
BT_convert_ffi_expression_to_rust_type(ty, e) ==
  CASE ty = "i32" -> e
    [] ty = "String" ->
         <<"unsafe", "{", "Box", "::", "from_raw", "(">> \o e \o <<")", ".", "0", "}">>
    [] OTHER -> e \o <<".", "into_rust_repr", "(", ")">>

\* BridgedType::convert_swift_expression_to_ffi_type: client -> ABI (text)
BT_convert_swift_expression_to_ffi_type(ty, e) ==
  CASE ty = "i32" -> e
    [] ty = "String" ->
         <<"{ let rustString = ">> \o e
           \o <<".intoRustString(); rustString.isOwned = false; return rustString.ptr }()">>
    [] OTHER -> e \o <<".intoFfiRepr()">>

\* BridgedType::convert_ffi_value_to_swift_value: ABI -> client (text)
BT_convert_ffi_value_to_swift_value(ty, e) ==
  CASE ty = "i32" -> e
    [] ty = "String" -> <<"RustString(ptr: ">> \o e \o <<")">>
    [] OTHER -> e \o <<".intoSwiftRepr()">>

\* BridgedType::contains_owned_string_recursive
BT_contains_owned_string_recursive(ty) == ty = "String"

(***************************************************************************)
(* StructFields and its helpers (struct_field.rs)                          *)
(***************************************************************************)
Fields(shape, tys) == [shape |-> shape, tys |-> tys]

\* the identifier of the i-th (0-based) named field
FieldIdent(i) == "x" \o ToString(i)

\* StructFields::is_empty
is_empty(fields) == fields.shape = "Unit" \/ Len(fields.tys) = 0

\* StructFields::normalized_fields: accessor (identifier or index) and type
normalized_fields(fields) ==
  [i \in 1..Len(fields.tys) |->
     [named |-> fields.shape = "Named",
      accessor |-> IF fields.shape = "Named" THEN FieldIdent(i - 1) ELSE ToString(i - 1),
      ty |-> fields.tys[i]]]

\* NormalizedStructField::maybe_name_and_colon
maybe_name_and_colon(nf) == IF nf.named THEN <<nf.accessor, ":">> ELSE <<>>

\* NormalizedStructField::append_field_accessor: #expression.#accessor
append_field_accessor(nf, e) == e \o <<".", nf.accessor>>

\* NormalizedStructField::ffi_field_name
ffi_field_name(nf) == IF nf.named THEN nf.accessor ELSE "_" \o nf.accessor

\* StructFields::empty_field_wrapper
empty_field_wrapper(fields) ==
  CASE fields.shape = "Named" -> <<"{", "}">>
    [] fields.shape = "Unnamed" -> <<"(", ")">>
    [] OTHER -> <<>>

(***************************************************************************)
(* SharedStruct (shared_struct.rs)                                         *)
(***************************************************************************)
SharedStruct(name, swift_repr, fields, swift_name, already_declared, is_tuple) ==
  [kind |-> "struct", name |-> name, swift_repr |-> swift_repr, fields |-> fields,
   swift_name |-> swift_name, already_declared |-> already_declared,
   is_tuple |-> is_tuple]

\* SharedStruct::tuple_from
tuple_from(types) ==
  SharedStruct("tuple", "Structure", Fields("Unnamed", types), None, FALSE, TRUE)

\* SharedStruct::combine_field_types_swift_name
combine_field_types_swift_name(s) ==
  IF s.fields.shape = "Unnamed"
  THEN "(" \o JoinStr([i \in 1..Len(s.fields.tys) |-> BT_to_swift_type(s.fields.tys[i])], ", ") \o ")"
  ELSE PanicStr

\* SharedStruct::combine_field_types_swift_name_with_type_pos
combine_field_types_swift_name_with_type_pos(s) ==
  IF s.fields.shape = "Unnamed"
  THEN "(" \o JoinStr([i \in 1..Len(s.fields.tys) |-> BT_to_swift_type(s.fields.tys[i])], ", ") \o ")"
  ELSE PanicStr

\* SharedStruct::combine_field_types_string: fold("", |sum, s| sum + &s)
combine_field_types_string(s) ==
  IF s.fields.shape = "Unnamed"
  THEN JoinStr([i \in 1..Len(s.fields.tys) |-> BT_to_rust_type_path(s.fields.tys[i])], "")
  ELSE PanicStr

\* SharedStruct::combine_field_types_tokens
combine_field_types_tokens(s) ==
  IF s.fields.shape = "Unnamed"
  THEN [i \in 1..Len(s.fields.tys) |-> <<BT_to_rust_type_path(s.fields.tys[i])>>]
  ELSE <<<<PanicStr>>>>

\* SharedStruct::to_swift_type
to_swift_type(s) ==
  IF s.is_tuple THEN combine_field_types_swift_name_with_type_pos(s)
  ELSE IF s.swift_name # None THEN s.swift_name.val ELSE s.name

\* SharedStruct::swift_name_string
swift_name_string(s) ==
  IF s.is_tuple THEN combine_field_types_swift_name(s)
  ELSE IF s.swift_name # None THEN s.swift_name.val ELSE s.name

\* SharedStruct::ffi_name_string
ffi_name_string(s) ==
  IF s.is_tuple
  THEN IF combine_field_types_string(s) = PanicStr THEN PanicStr
       ELSE SWIFT_BRIDGE_PREFIX \o "$" \o s.name \o "$" \o combine_field_types_string(s)
  ELSE SWIFT_BRIDGE_PREFIX \o "$" \o swift_name_string(s)

\* SharedStruct::ffi_name_tokens
ffi_name_tokens(s) == SWIFT_BRIDGE_PREFIX \o s.name

\* SharedStruct::ffi_option_name_tokens
ffi_option_name_tokens(s) == SWIFT_BRIDGE_PREFIX \o "Option_" \o s.name

\* SharedStruct::ffi_option_name_string
ffi_option_name_string(s) ==
  IF swift_name_string(s) = PanicStr THEN PanicStr
  ELSE SWIFT_BRIDGE_PREFIX \o "$Option$" \o swift_name_string(s)

\* SharedStruct::only_encoding
only_encoding(s) ==
  IF ~is_empty(s.fields) \/ s.already_declared THEN None
  ELSE IF swift_name_string(s) = PanicStr THEN Panic
  ELSE Some([swift |-> swift_name_string(s) \o "()",
             rust |-> <<s.name>> \o empty_field_wrapper(s.fields)])

\* SharedStruct::wrap_fields: the delimiters put around the field list
wrap_open(s) ==
  CASE s.fields.shape = "Named" -> <<"{">>
    [] s.fields.shape = "Unnamed" -> <<"(">>
    [] OTHER -> <<>>

wrap_close(s) ==
  CASE s.fields.shape = "Named" -> <<"}">>
    [] s.fields.shape = "Unnamed" -> <<")">>
    [] OTHER -> <<>>

\* the ABI literal of a struct without fields
PlaceholderRust == <<"_private", ":", "123">>
PlaceholderSwift == <<"_private: 123">>

\* SharedStruct::convert_ffi_repr_to_rust
convert_ffi_repr_to_rust(s, rust_val) ==
  LET nfs == normalized_fields(s.fields)
      converted_fields ==
        [i \in 1..Len(nfs) |->
           maybe_name_and_colon(nfs[i])
             \o BT_convert_ffi_expression_to_rust_type(
                  nfs[i].ty, append_field_accessor(nfs[i], <<"val">>))]
  IN IF is_empty(s.fields)
     THEN Ret(Code(<<s.name>> \o wrap_open(s), converted_fields, ",", wrap_close(s)))
     ELSE Ret(Code(<<"{", "let", "val", "=">> \o rust_val \o <<";", s.name>> \o wrap_open(s),
                   converted_fields, ",", wrap_close(s) \o <<"}">>))

\* the impl block generate_into_ffi_repr_method puts around the conversion
ImplPre(s) ==
  <<"impl", s.name, "{", "pub", "fn", "into_ffi_repr", "(", "self", ")", "->",
    SWIFT_BRIDGE_PREFIX \o s.name, "{">>

ImplPost == <<"}", "}">>

\* generate_into_ffi_repr_method taking only a Unit struct for empty
generate_into_ffi_repr_method_unit(s, expression) ==
  LET nfs == normalized_fields(s.fields)
      converted_fields ==
        [i \in 1..Len(nfs) |->
           maybe_name_and_colon(nfs[i])
             \o BT_convert_rust_expression_to_ffi_type(
                  nfs[i].ty, append_field_accessor(nfs[i], <<"val">>))]
      ffi_name == ffi_name_tokens(s)
  IN IF s.fields.shape = "Unit"
     THEN Ret(Code(ImplPre(s) \o <<ffi_name, "{">>, <<PlaceholderRust>>, ",",
                   <<"}">> \o ImplPost))
     ELSE Ret(Code(ImplPre(s) \o <<"{", "let", "val", "=">> \o expression
                     \o <<";", ffi_name>> \o wrap_open(s),
                   converted_fields, ",", wrap_close(s) \o <<"}">> \o ImplPost))

\* SharedStruct::generate_into_ffi_repr_method
generate_into_ffi_repr_method(s, expression) ==
  LET nfs == normalized_fields(s.fields)
      converted_fields ==
        [i \in 1..Len(nfs) |->
           maybe_name_and_colon(nfs[i])
             \o BT_convert_rust_expression_to_ffi_type(
                  nfs[i].ty, append_field_accessor(nfs[i], <<"val">>))]
      ffi_name == ffi_name_tokens(s)
  IN IF is_empty(s.fields)
     THEN Ret(Code(ImplPre(s) \o <<ffi_name, "{">>, <<PlaceholderRust>>, ",",
                   <<"}">> \o ImplPost))
     ELSE Ret(Code(ImplPre(s) \o <<"{", "let", "val", "=">> \o expression
                     \o <<";", ffi_name>> \o wrap_open(s),
                   converted_fields, ",", wrap_close(s) \o <<"}">> \o ImplPost))

\* SharedStruct::convert_swift_to_ffi_repr
convert_swift_to_ffi_repr(s, expression) ==
  LET struct_name == ffi_name_string(s)
      nfs == normalized_fields(s.fields)
      converted_fields ==
        [i \in 1..Len(nfs) |->
           <<ffi_field_name(nfs[i]), ": ">>
             \o BT_convert_swift_expression_to_ffi_type(
                  nfs[i].ty, <<"val." \o ffi_field_name(nfs[i])>>)]
  IN IF struct_name = PanicStr THEN Panic
     ELSE IF is_empty(s.fields)
     THEN Ret(Code(<<struct_name, "(">>, <<PlaceholderSwift>>, ", ", <<")">>))
     ELSE Ret(Code(<<"{ let val = ">> \o expression \o <<"; return ", struct_name, "(">>,
                   converted_fields, ", ", <<"); }()">>))

\* SharedStruct::convert_ffi_expression_to_swift
convert_ffi_expression_to_swift(s, expression) ==
  LET struct_name == swift_name_string(s)
      nfs == normalized_fields(s.fields)
      converted_fields ==
        [i \in 1..Len(nfs) |->
           <<ffi_field_name(nfs[i]), ": ">>
             \o BT_convert_ffi_value_to_swift_value(
                  nfs[i].ty, <<"val." \o ffi_field_name(nfs[i])>>)]
  IN IF struct_name = PanicStr THEN Panic
     ELSE IF is_empty(s.fields)
     THEN Ret(Code(<<struct_name, "(">>, <<>>, ", ", <<")">>))
     ELSE Ret(Code(<<"{ let val = ">> \o expression \o <<"; return ", struct_name, "(">>,
                   converted_fields, ", ", <<"); }()">>))

\* the qualified alias <super::T as swift_bridge::SharedStruct>::FfiRepr
FfiReprAlias(ty_name) ==
  <<"<", "super", "::", ty_name, "as", "swift_bridge", "::", "SharedStruct", ">",
    "::", "FfiRepr">>

\* generate_prefixed_type_name_tokens without the already_declared test
generate_prefixed_type_name_tokens_local(s) ==
  IF s.is_tuple
  THEN IF combine_field_types_string(s) = PanicStr THEN Panic
       ELSE Ret(<<SWIFT_BRIDGE_PREFIX \o s.name \o "_" \o combine_field_types_string(s)>>)
  ELSE Ret(<<SWIFT_BRIDGE_PREFIX \o s.name>>)

\* SharedStruct::generate_prefixed_type_name_tokens
generate_prefixed_type_name_tokens(s) ==
  IF s.is_tuple
  THEN IF combine_field_types_string(s) = PanicStr THEN Panic
       ELSE LET ty_name == s.name \o "_" \o combine_field_types_string(s)
            IN IF s.already_declared
               THEN Ret(FfiReprAlias(ty_name))
               ELSE Ret(<<SWIFT_BRIDGE_PREFIX \o ty_name>>)
  ELSE IF s.already_declared
       THEN Ret(FfiReprAlias(s.name))
       ELSE Ret(<<SWIFT_BRIDGE_PREFIX \o s.name>>)

\* SharedStruct::convert_ffi_expression_to_rust_type
convert_ffi_expression_to_rust_type(s, value) ==
  LET nfs == normalized_fields(s.fields)
  IN IF s.is_tuple
     THEN Ret(Code(<<"(">>, [i \in 1..Len(nfs) |-> append_field_accessor(nfs[i], value)],
                   ",", <<")">>))
     ELSE Ret(Code(value \o <<".", "into_rust_repr", "(", ")">>, <<>>, ",", <<>>))

\* SharedStruct::convert_rust_expression_to_ffi_type
convert_rust_expression_to_ffi_type(s, expression) ==
  IF only_encoding(s) = Panic THEN Panic
  ELSE IF only_encoding(s) # None
  THEN Ret(Code(<<"{">> \o expression \o <<";", "}">>, <<>>, ",", <<>>))
  ELSE IF s.is_tuple
  THEN IF combine_field_types_string(s) = PanicStr THEN Panic
       ELSE Ret(Code(<<"let", "val", "=">> \o expression
                       \o <<";", SWIFT_BRIDGE_PREFIX \o s.name \o "_"
                                   \o combine_field_types_string(s), "(">>,
                     << <<"val", ".", "0">>, <<"val", ".", "1">> >>, ",", <<")">>))
  ELSE Ret(Code(expression \o <<".", "into_ffi_repr", "(", ")">>, <<>>, ",", <<>>))

\* SharedStruct::generate_custom_rust_ffi_type
generate_custom_rust_ffi_type(s) ==
  IF s.is_tuple
  THEN IF combine_field_types_string(s) = PanicStr THEN Panic
       ELSE Some(Code(<<"#[repr(C)]", "#[doc(hidden)]", "pub", "struct",
                        SWIFT_BRIDGE_PREFIX \o s.name \o "_"
                          \o combine_field_types_string(s), "(">>,
                      combine_field_types_tokens(s), ",", <<")", ";">>))
  ELSE None

\* SharedStruct::convert_ffi_expression_to_swift_type
convert_ffi_expression_to_swift_type(s, expression) ==
  IF only_encoding(s) = Panic THEN Panic
  ELSE IF only_encoding(s) # None
  THEN Ret(Code(<<"{ let _ = ">> \o expression
                  \o <<"; return ", only_encoding(s).val.swift, " }()">>, <<>>, ", ", <<>>))
  ELSE IF s.is_tuple
  THEN IF s.fields.shape # "Unnamed" THEN Panic
       ELSE Ret(Code(<<"let val = ">> \o expression \o <<"; return (">>,
                     [i \in 1..Len(s.fields.tys) |->
                        BT_convert_ffi_value_to_swift_value(
                          s.fields.tys[i], <<"val._" \o ToString(i - 1)>>)],
                     ", ", <<");">>))
  ELSE Ret(Code(expression \o <<".intoSwiftRepr()">>, <<>>, ", ", <<>>))

\* convert_swift_expression_to_ffi_type labelling the arguments from 1
convert_swift_expression_to_ffi_type_from1(s, expression) ==
  IF s.is_tuple
  THEN IF s.fields.shape # "Unnamed" THEN Panic
       ELSE Ret(Code(<<SWIFT_BRIDGE_PREFIX \o "$" \o s.name \o "$"
                         \o combine_field_types_string(s), "(">>,
                     [i \in 1..Len(s.fields.tys) |->
                        <<"_" \o ToString(i) \o ": ">>
                          \o BT_convert_swift_expression_to_ffi_type(
                               s.fields.tys[i], expression \o <<"." \o ToString(i - 1)>>)],
                     ", ", <<")">>))
  ELSE IF only_encoding(s) = Panic THEN Panic
  ELSE IF only_encoding(s) # None
  THEN Ret(Code(<<"{ let _ = ">> \o expression \o <<"; }()">>, <<>>, ", ", <<>>))
  ELSE Ret(Code(expression \o <<".intoFfiRepr()">>, <<>>, ", ", <<>>))

\* SharedStruct::convert_swift_expression_to_ffi_type
convert_swift_expression_to_ffi_type(s, expression) ==
  IF s.is_tuple
  THEN IF s.fields.shape # "Unnamed" THEN Panic
       ELSE Ret(Code(<<SWIFT_BRIDGE_PREFIX \o "$" \o s.name \o "$"
                         \o combine_field_types_string(s), "(">>,
                     [i \in 1..Len(s.fields.tys) |->
                        <<"_" \o ToString(i - 1) \o ": ">>
                          \o BT_convert_swift_expression_to_ffi_type(
                               s.fields.tys[i], expression \o <<"." \o ToString(i - 1)>>)],
                     ", ", <<")">>))
  ELSE IF only_encoding(s) = Panic THEN Panic
  ELSE IF only_encoding(s) # None
  THEN Ret(Code(<<"{ let _ = ">> \o expression \o <<"; }()">>, <<>>, ", ", <<>>))
  ELSE Ret(Code(expression \o <<".intoFfiRepr()">>, <<>>, ", ", <<>>))

\* generate_custom_c_ffi_type naming the typedef like the native ABI struct
generate_custom_c_ffi_type_native(s) ==
  IF s.is_tuple
  THEN IF combine_field_types_string(s) = PanicStr THEN Panic
       ELSE LET c_name == "__swift_bridge__tuple_" \o combine_field_types_string(s)
            IN Some(Code(<<"typedef struct ", c_name, " { ">>,
                         [i \in 1..Len(s.fields.tys) |->
                            <<BT_to_c(s.fields.tys[i]), " _" \o ToString(i - 1)>>],
                         "; ", <<";", " } ", c_name, ";">>))
  ELSE None

\* SharedStruct::generate_custom_c_ffi_type
generate_custom_c_ffi_type(s) ==
  IF s.is_tuple
  THEN IF combine_field_types_string(s) = PanicStr THEN Panic
       ELSE LET c_name == "__swift_bridge__$tuple$" \o combine_field_types_string(s)
            IN Some(Code(<<"typedef struct ", c_name, " { ">>,
                         [i \in 1..Len(s.fields.tys) |->
                            <<BT_to_c(s.fields.tys[i]), " _" \o ToString(i - 1)>>],
                         "; ", <<";", " } ", c_name, ";">>))
  ELSE None

\* contains_owned_string_recursive with all() in place of any()
contains_owned_string_recursive_all(s) ==
  IF s.is_tuple
  THEN IF s.fields.shape # "Unnamed" THEN Panic
       ELSE Ret(\A i \in 1..Len(s.fields.tys) :
                  BT_contains_owned_string_recursive(s.fields.tys[i]))
  ELSE Ret(FALSE)

\* SharedStruct::contains_owned_string_recursive
contains_owned_string_recursive(s) ==
  IF s.is_tuple
  THEN IF s.fields.shape # "Unnamed" THEN Panic
       ELSE Ret(\E i \in 1..Len(s.fields.tys) :
                  BT_contains_owned_string_recursive(s.fields.tys[i]))
  ELSE Ret(FALSE)

(***************************************************************************)
(* SharedEnum and generate_shared_enum_tokens (shared_enum.rs)             *)
(***************************************************************************)
EnumVariant(name, fields) == [name |-> name, fields |-> fields]

SharedEnum(name, variants, already_declared) ==
  [kind |-> "enum", name |-> name, variants |-> variants,
   already_declared |-> already_declared]

\* SharedEnum::has_one_or_more_variants_with_data
has_one_or_more_variants_with_data(e) ==
  \E i \in 1..Len(e.variants) : ~is_empty(e.variants[i].fields)

\* SharedEnum::ffi_option_name_tokens
enum_ffi_option_name_tokens(e) == SWIFT_BRIDGE_PREFIX \o "Option_" \o e.name

\* the todo!() test looking at the first variant only
HasNamedVariant_first(e) == e.variants[1].fields.shape = "Named"

\* whether a todo!() of the variant loops is hit
HasNamedVariant(e) == \E i \in 1..Len(e.variants) : e.variants[i].fields.shape = "Named"

\* the native variant list: the loop at lines 32-54
enum_variants(e) ==
  [i \in 1..Len(e.variants) |->
     LET v == e.variants[i]
     IN IF v.fields.shape = "Unnamed"
        THEN Code(<<v.name, "(">>,
                  [j \in 1..Len(v.fields.tys) |-> <<v.fields.tys[j]>>], ",", <<")">>)
        ELSE Code(<<v.name>>, <<>>, ",", <<>>)]

\* the ABI variant list: the loop at lines 56-82
enum_ffi_variants(e) ==
  [i \in 1..Len(e.variants) |->
     LET v == e.variants[i]
     IN IF v.fields.shape = "Unnamed"
        THEN Code(<<v.name, "(">>,
                  [j \in 1..Len(v.fields.tys) |->
                     BT_to_ffi_compatible_rust_type(v.fields.tys[j])], ",", <<")">>)
        ELSE Code(<<v.name, "(">>, << <<"u8">> >>, ",", <<")">>)]

\* EnumVariant::convert_rust_expression_to_ffi_repr: the match arm
\*   Enum::V(value_0, ..) => FfiEnum::V(conv(value_0), ..)   or
\*   Enum::V => FfiEnum::V(placeholder byte)
variant_convert_rust_expression_to_ffi_repr(v) ==
  [pat |-> v.name, unit |-> v.fields.shape = "Unit", tys |-> v.fields.tys]

\* EnumVariant::convert_ffi_repr_to_rust: the match arm
\*   FfiEnum::V(value_0, ..) => Enum::V(conv(value_0), ..)   or
\*   FfiEnum::V(_) => Enum::V
variant_convert_ffi_repr_to_rust(v) ==
  [pat |-> v.name, unit |-> v.fields.shape = "Unit", tys |-> v.fields.tys]

\* the native -> ABI arms: the loop at lines 87-95, pushing at the front
convert_rust_variants_to_ffi_rev(e) ==
  [i \in 1..Len(e.variants) |->
     variant_convert_rust_expression_to_ffi_repr(e.variants[Len(e.variants) + 1 - i])]

\* the native -> ABI arms: the loop at lines 87-95
convert_rust_variants_to_ffi(e) ==
  [i \in 1..Len(e.variants) |-> variant_convert_rust_expression_to_ffi_repr(e.variants[i])]

\* the ABI -> native arms: the loop at lines 97-105, with a variant left out
convert_ffi_variants_to_rust_skip(e) ==
  [i \in 1..(Len(e.variants) - 1) |-> variant_convert_ffi_repr_to_rust(e.variants[i + 1])]

\* the ABI -> native arms: the loop at lines 97-105
convert_ffi_variants_to_rust(e) ==
  [i \in 1..Len(e.variants) |-> variant_convert_ffi_repr_to_rust(e.variants[i])]

\* lines 109-113, with the test inverted
automatic_derives_inverted(e) ==
  IF has_one_or_more_variants_with_data(e) THEN <<"Copy", "Clone">> ELSE <<>>

\* lines 109-113
automatic_derives(e) ==
  IF has_one_or_more_variants_with_data(e) THEN <<>> ELSE <<"Copy", "Clone">>

\* generate_vec_of_transparent_enum_functions: the collection-support functions
generate_vec_of_transparent_enum_functions(e) ==
  <<"pub", "extern", "\"C\"", "fn", SWIFT_BRIDGE_PREFIX \o "$Vec_" \o e.name \o "$new">>

\* lines 115-120
vec_support(e) ==
  IF has_one_or_more_variants_with_data(e) THEN <<>>
  ELSE generate_vec_of_transparent_enum_functions(e)

\* SwiftBridgeModule::generate_shared_enum_tokens
generate_shared_enum_tokens(e) ==
  IF e.already_declared THEN None
  ELSE IF HasNamedVariant(e) THEN Panic
  ELSE Some([enum_name |-> e.name,
             enum_ffi_name |-> SWIFT_BRIDGE_PREFIX \o e.name,
             option_enum |-> enum_ffi_option_name_tokens(e),
             automatic_derives |-> automatic_derives(e),
             enum_variants |-> enum_variants(e),
             enum_ffi_variants |-> enum_ffi_variants(e),
             convert_rust_variants_to_ffi |-> convert_rust_variants_to_ffi(e),
             convert_ffi_variants_to_rust |-> convert_ffi_variants_to_rust(e),
             vec_support |-> vec_support(e)])

(***************************************************************************)
(* The generated code at run time.  Every run-time atom is a string; a     *)
(* native or ABI enum value is [variant, payload].                         *)
(***************************************************************************)
EnumValue(variant, payload) == [variant |-> variant, payload |-> payload]

\* no value: a match without an arm for the value does not build
NoArm == EnumValue("!no_arm", <<>>)
NoValue == EnumValue("", <<>>)

\* native values of a field type
ValuesOf(ty) == IF ty = "String" THEN {"a", "b"} ELSE {"0", "1"}

\* native -> ABI of one field value: a scalar passes through, owned text is boxed
FieldToFfi(ty, x) == IF ty = "String" THEN "box:" \o x ELSE x

\* ABI -> native of one field value
FieldToRust(ty, p) ==
  IF ty = "String"
  THEN IF \E x \in ValuesOf(ty) : FieldToFfi(ty, x) = p
       THEN CHOOSE x \in ValuesOf(ty) : FieldToFfi(ty, x) = p
       ELSE "!dangling"
  ELSE p

\* all payloads of a field-type list
Payloads(tys) == {p \in [1..Len(tys) -> UNION {ValuesOf(tys[j]) : j \in 1..Len(tys)}] :
                    \A j \in 1..Len(tys) : p[j] \in ValuesOf(tys[j])}

\* all native values of an enum
NativeValues(e) ==
  UNION {{EnumValue(e.variants[i].name, p) : p \in Payloads(e.variants[i].fields.tys)} :
           i \in 1..Len(e.variants)}

\* the first arm of a match whose pattern is the value's variant; 0 if none
FirstArm(arms, v) ==
  IF \E i \in 1..Len(arms) : arms[i].pat = v.variant
  THEN CHOOSE i \in 1..Len(arms) :
         /\ arms[i].pat = v.variant
         /\ \A j \in 1..(i - 1) : arms[j].pat # v.variant
  ELSE 0

\* generated Enum::into_ffi_repr (lines 138-146): match self { arms }
into_ffi_repr(def, v) ==
  LET arms == def.convert_rust_variants_to_ffi
      i == FirstArm(arms, v)
  IN IF i = 0 THEN NoArm
     ELSE IF arms[i].unit THEN EnumValue(v.variant, <<"123">>)
     ELSE EnumValue(v.variant,
                    [j \in 1..Len(arms[i].tys) |-> FieldToFfi(arms[i].tys[j], v.payload[j])])

\* generated FfiEnum::into_rust_repr (lines 148-156): match self { arms }
into_rust_repr(def, f) ==
  LET arms == def.convert_ffi_variants_to_rust
      i == FirstArm(arms, f)
  IN IF i = 0 THEN NoArm
     ELSE IF arms[i].unit THEN EnumValue(f.variant, <<>>)
     ELSE EnumValue(f.variant,
                    [j \in 1..Len(arms[i].tys) |-> FieldToRust(arms[i].tys[j], f.payload[j])])

\* std::mem::MaybeUninit
MaybeUninit_new(x) == [init |-> TRUE, v |-> x]
MaybeUninit_uninit == [init |-> FALSE, v |-> NoValue]

\* lines 176-190 with the presence flag set in both branches
option_from_rust_repr_flag(def, val) ==
  IF val.tag = "Some"
  THEN [is_some |-> TRUE, val |-> MaybeUninit_new(into_ffi_repr(def, val.val))]
  ELSE [is_some |-> TRUE, val |-> MaybeUninit_uninit]

\* generated OptionEnum::from_rust_repr (lines 176-190)
option_from_rust_repr(def, val) ==
  IF val.tag = "Some"
  THEN [is_some |-> TRUE, val |-> MaybeUninit_new(into_ffi_repr(def, val.val))]
  ELSE [is_some |-> FALSE, val |-> MaybeUninit_uninit]

\* generated OptionEnum::into_rust_repr (lines 168-174): whether self.val is read
option_into_rust_repr_reads(w) == w.is_some

(***************************************************************************)
(* The schema handed to the generators                                     *)
(***************************************************************************)
\* source expressions spliced into the generated conversions
Exprs == {"f()"}

\* payloads of the positional enum variants of the schema: none, one
\* scalar, one owned text, and both in either order
VariantPayloads ==
  {<<>>, <<"i32">>, <<"String">>, <<"i32", "String">>, <<"String", "i32">>}

FieldLists == SeqsUpTo(FieldTypes, MaxFields)

AllFields ==
  {Fields(sh, tys) : sh \in {"Named", "Unnamed"}, tys \in FieldLists}
    \cup {Fields("Unit", <<>>)}

\* structs declared in the schema (the front end never sets is_tuple)
SchemaStructs ==
  {SharedStruct("S", r, f, sn, ad, FALSE) :
     r \in {"Structure"}, f \in AllFields, sn \in {None, Some("SwiftS")},
     ad \in BOOLEAN}

VariantFields ==
  {Fields("Unnamed", tys) : tys \in VariantPayloads}
    \cup {Fields("Unit", <<>>), Fields("Named", <<"i32">>)}

VariantName(i) == "V" \o ToString(i)

\* enums declared in the schema: variants V1, V2, .. in declaration order
SchemaEnums ==
  {SharedEnum("E", [i \in 1..n |-> EnumVariant(VariantName(i), fs[i])], ad) :
     n \in 1..MaxVariants, fs \in [1..MaxVariants -> VariantFields], ad \in BOOLEAN}

NoDecl == [kind |-> "none"]

\* no Option wrapper is alive
NoWrapper == [is_some |-> FALSE, val |-> MaybeUninit_uninit]

Init ==
  /\ decl = NoDecl
  /\ other = NoDecl
  /\ expr \in Exprs
  /\ op = "init"
  /\ out = None
  /\ nat = None
  /\ abi = NoValue
  /\ back = None
  /\ opt = NoWrapper
  /\ ub = FALSE

\* the front end declares a struct or an enum of the schema
Declare(d) ==
  /\ decl = NoDecl
  /\ decl' = d
  /\ op' = "declare"
  /\ UNCHANGED <<other, expr, out, nat, abi, back, opt, ub>>

\* a tuple type is met: SharedStruct::tuple_from
TupleFrom(types) ==
  /\ decl = NoDecl
  /\ decl' = tuple_from(types)
  /\ op' = "tuple_from"
  /\ UNCHANGED <<other, expr, out, nat, abi, back, opt, ub>>

\* the generator is idle: the last output, if any, was taken by the driver
Idle == op \in {"declare", "tuple_from", "taken"}

\* the driver splices the output of a generator method into its artifacts
TakeOutput ==
  /\ decl.kind = "struct"
  /\ ~Idle
  /\ op' = "taken"
  /\ out' = None
  /\ UNCHANGED <<decl, other, expr, nat, abi, back, opt, ub>>

\* one generator method of SharedStruct applied to the declared struct
StructOp(name, result) ==
  /\ decl.kind = "struct"
  /\ Idle
  /\ op' = name
  /\ out' = result
  /\ UNCHANGED <<decl, other, expr, nat, abi, back, opt, ub>>

StrRet(s) == IF s = PanicStr THEN Panic ELSE Ret(s)

ToSwiftType == StructOp("to_swift_type", StrRet(to_swift_type(decl)))
SwiftNameString == StructOp("swift_name_string", StrRet(swift_name_string(decl)))
FfiNameString == StructOp("ffi_name_string", StrRet(ffi_name_string(decl)))
FfiNameTokens == StructOp("ffi_name_tokens", Ret(ffi_name_tokens(decl)))
FfiOptionNameTokens == StructOp("ffi_option_name_tokens", Ret(ffi_option_name_tokens(decl)))
FfiOptionNameString ==
  StructOp("ffi_option_name_string", StrRet(ffi_option_name_string(decl)))
OnlyEncoding == StructOp("only_encoding", only_encoding(decl))
ConvertFfiReprToRust ==
  StructOp("convert_ffi_repr_to_rust", convert_ffi_repr_to_rust(decl, <<expr>>))
GenerateIntoFfiReprMethod ==
  StructOp("generate_into_ffi_repr_method", generate_into_ffi_repr_method(decl, <<expr>>))
ConvertSwiftToFfiRepr ==
  StructOp("convert_swift_to_ffi_repr", convert_swift_to_ffi_repr(decl, <<expr>>))
ConvertFfiExpressionToSwift ==
  StructOp("convert_ffi_expression_to_swift", convert_ffi_expression_to_swift(decl, <<expr>>))
GeneratePrefixedTypeNameTokens ==
  StructOp("generate_prefixed_type_name_tokens", generate_prefixed_type_name_tokens(decl))
ConvertFfiExpressionToRustType ==
  StructOp("convert_ffi_expression_to_rust_type",
           convert_ffi_expression_to_rust_type(decl, <<expr>>))
ConvertRustExpressionToFfiType ==
  StructOp("convert_rust_expression_to_ffi_type",
           convert_rust_expression_to_ffi_type(decl, <<expr>>))
GenerateCustomRustFfiType ==
  StructOp("generate_custom_rust_ffi_type", generate_custom_rust_ffi_type(decl))
ConvertFfiExpressionToSwiftType ==
  StructOp("convert_ffi_expression_to_swift_type",
           convert_ffi_expression_to_swift_type(decl, <<expr>>))
ConvertSwiftExpressionToFfiType ==
  StructOp("convert_swift_expression_to_ffi_type",
           convert_swift_expression_to_ffi_type(decl, <<expr>>))
GenerateCustomCFfiType ==
  StructOp("generate_custom_c_ffi_type", generate_custom_c_ffi_type(decl))
ContainsOwnedStringRecursive ==
  StructOp("contains_owned_string_recursive", contains_owned_string_recursive(decl))

\* SwiftBridgeModule::generate_shared_enum_tokens on the declared enum
GenerateSharedEnumTokens ==
  /\ decl.kind = "enum"
  /\ op = "declare"
  /\ op' = "generate_shared_enum_tokens"
  /\ out' = generate_shared_enum_tokens(decl)
  /\ UNCHANGED <<decl, other, expr, nat, abi, back, opt, ub>>

\* the generated definition is built and in use
Generated == decl.kind = "enum" /\ op # "declare" /\ out.tag = "Some"

\* no value is in flight across the boundary
NothingInFlight == op \notin {"into_ffi_repr", "from_rust_repr"}

\* the native values the caller may hand to the generated code
InputValues == IF Generated /\ NothingInFlight THEN NativeValues(decl) ELSE {}

\* generated Enum::into_ffi_repr on a native value
IntoFfiRepr(v) ==
  /\ Generated
  /\ op' = "into_ffi_repr"
  /\ nat' = Ret(v)
  /\ abi' = into_ffi_repr(out.val, v)
  /\ back' = None
  /\ UNCHANGED <<decl, other, expr, out, opt, ub>>

\* generated FfiEnum::into_rust_repr on the ABI value just produced
IntoRustRepr ==
  /\ Generated
  /\ op = "into_ffi_repr"
  /\ op' = "into_rust_repr"
  /\ back' = Ret(into_rust_repr(out.val, abi))
  /\ UNCHANGED <<decl, other, expr, out, nat, abi, opt, ub>>

\* generated OptionEnum::from_rust_repr on an optional native value
OptionFromRustRepr(val) ==
  /\ Generated
  /\ op' = "from_rust_repr"
  /\ nat' = val
  /\ opt' = option_from_rust_repr(out.val, val)
  /\ abi' = NoValue
  /\ back' = None
  /\ UNCHANGED <<decl, other, expr, out, ub>>

\* generated OptionEnum::into_rust_repr(self) on the wrapper just built; it
\* takes the wrapper by value, so the wrapper is gone afterwards.  Reading
\* an uninitialized slot (assume_init) is undefined: any value may come out.
OptionIntoRustRepr ==
  /\ Generated
  /\ op = "from_rust_repr"
  /\ op' = "option_into_rust_repr"
  /\ IF option_into_rust_repr_reads(opt)
     THEN IF opt.val.init
          THEN /\ back' = Some(into_rust_repr(out.val, opt.val.v))
               /\ ub' = ub
          ELSE /\ \E g \in NativeValues(decl) : back' = Some(g)
               /\ ub' = TRUE
     ELSE /\ back' = None
          /\ ub' = ub
  /\ opt' = NoWrapper
  /\ UNCHANGED <<decl, other, expr, out, nat, abi>>

Next ==
  \/ \E d \in SchemaStructs \cup SchemaEnums : Declare(d)
  \/ \E types \in FieldLists : TupleFrom(types)
  \/ ToSwiftType
  \/ SwiftNameString
  \/ FfiNameString
  \/ FfiNameTokens
  \/ FfiOptionNameTokens
  \/ FfiOptionNameString
  \/ OnlyEncoding
  \/ ConvertFfiReprToRust
  \/ GenerateIntoFfiReprMethod
  \/ ConvertSwiftToFfiRepr
  \/ ConvertFfiExpressionToSwift
  \/ GeneratePrefixedTypeNameTokens
  \/ ConvertFfiExpressionToRustType
  \/ ConvertRustExpressionToFfiType
  \/ GenerateCustomRustFfiType
  \/ ConvertFfiExpressionToSwiftType
  \/ ConvertSwiftExpressionToFfiType
  \/ GenerateCustomCFfiType
  \/ ContainsOwnedStringRecursive
  \/ TakeOutput
  \/ GenerateSharedEnumTokens
  \/ \E v \in InputValues : IntoFfiRepr(v)
  \/ IntoRustRepr
  \/ \E val \in {None} \cup {Some(v) : v \in InputValues} : OptionFromRustRepr(val)
  \/ OptionIntoRustRepr

Spec == Init /\ [][Next]_vars

(***************************************************************************)
(* Two tuple shapes side by side: the symbol of an earlier tuple is kept   *)
(* in other, the symbol of the current one is generated into out.          *)
(***************************************************************************)
\* SharedStruct::ffi_name_string on an earlier tuple shape
EarlierTuple(types) ==
  /\ other = NoDecl
  /\ other' = [shape |-> tuple_from(types), symbol |-> ffi_name_string(tuple_from(types))]
  /\ UNCHANGED <<decl, expr, op, out, nat, abi, back, opt, ub>>

NextNames ==
  \/ \E types \in FieldLists : EarlierTuple(types)
  \/ \E types \in FieldLists : TupleFrom(types)
  \/ FfiNameString
  \/ TakeOutput

SpecNames == Init /\ [][NextNames]_vars

(***************************************************************************)
(* Tuple descriptors of any field shape: the fields of SharedStruct are    *)
(* public, so a descriptor with is_tuple set and a Named or Unit shape can *)
(* be handed to the generator methods, which carry todo!() arms for it.    *)
(***************************************************************************)
\* a descriptor with is_tuple set is built field by field
TupleWithShape(fields, already_declared) ==
  /\ decl = NoDecl
  /\ decl' = SharedStruct("tuple", "Structure", fields, None, already_declared, TRUE)
  /\ op' = "declare"
  /\ UNCHANGED <<other, expr, out, nat, abi, back, opt, ub>>

NextShapes ==
  \/ \E f \in AllFields, ad \in BOOLEAN : TupleWithShape(f, ad)
  \/ ToSwiftType
  \/ SwiftNameString
  \/ FfiNameString
  \/ GenerateCustomRustFfiType
  \/ GenerateCustomCFfiType
  \/ ConvertFfiExpressionToRustType
  \/ ConvertRustExpressionToFfiType
  \/ ConvertFfiExpressionToSwiftType
  \/ ConvertSwiftExpressionToFfiType
  \/ ContainsOwnedStringRecursive
  \/ TakeOutput

SpecShapes == Init /\ [][NextShapes]_vars

(***************************************************************************)
(* Properties                                                              *)
(***************************************************************************)
IsTuple == decl.kind = "struct" /\ decl.is_tuple
NumFields == Len(decl.fields.tys)

\* C1: two tuple shapes get the same mangled symbol from ffi_name_string if
\* and only if their ordered field-type sequences are equal.
TupleSymbolInjective ==
  (op = "ffi_name_string" /\ IsTuple /\ other # NoDecl /\ out.tag = "ok")
    => (out.val = other.symbol <=> decl.fields.tys = other.shape.fields.tys)

\* C2: the native -> ABI conversion of a tuple with n >= 1 fields passes n
\* arguments to the ABI tuple, the i-th being field i of the bound value
\* through the native -> ABI conversion of the i-th field type.
TupleToFfiProjectsEveryField ==
  (op = "convert_rust_expression_to_ffi_type" /\ IsTuple /\ NumFields >= 1)
    => /\ out.tag = "ok"
       /\ Len(out.val.args) = NumFields
       /\ \A i \in 1..NumFields :
            out.val.args[i] =
              BT_convert_rust_expression_to_ffi_type(
                decl.fields.tys[i], <<"val", ".", ToString(i - 1)>>)

\* the conversions between the native and the ABI representation
NativeAbiConversions ==
  {"convert_rust_expression_to_ffi_type", "generate_into_ffi_repr_method",
   "convert_ffi_expression_to_rust_type", "convert_ffi_repr_to_rust"}

\* C3: in every generated native <-> ABI conversion of a struct or tuple
\* with at least one field the source expression occurs exactly once.
SourceExpressionOccursOnce ==
  (op \in NativeAbiConversions /\ decl.kind = "struct" /\ NumFields >= 1
     /\ out.tag = "ok")
    => Count(Render(out.val), expr) = 1

OptionSlotNeverReadUninit ==
  /\ ~ub
  /\ (op = "from_rust_repr")
       => /\ opt.is_some <=> nat.tag = "Some"
          /\ opt.val.init <=> nat.tag = "Some"
  /\ (op = "option_into_rust_repr")
       => (back.tag = "Some" <=> nat.tag = "Some")

\* C5 witness: a wrapper built from an absent value was destructured
OptionSlotWitness ==
  /\ op = "option_into_rust_repr"
  /\ nat = None
  /\ back = None
  /\ ~ub

\* a struct without fields that is declared here
IsOnlyEncoding == decl.kind = "struct" /\ NumFields = 0 /\ ~decl.already_declared

\* C6: a struct is only-encoding exactly when it has no fields and is not
\* already declared, and each conversion generator of an only-encoding
\* struct, tuple or not, emits code that evaluates the source expression,
\* discards it and builds no ABI value.
OnlyEncodingDiscardsSource ==
  /\ (op = "only_encoding") => (out.tag = "Some" <=> IsOnlyEncoding)
  /\ (IsOnlyEncoding /\ op = "convert_rust_expression_to_ffi_type")
       => (out.tag = "ok" /\ Render(out.val) = <<"{", expr, ";", "}">>)
  /\ (IsOnlyEncoding /\ op = "convert_swift_expression_to_ffi_type")
       => (out.tag = "ok" /\ Render(out.val) = <<"{ let _ = ", expr, "; }()">>)
  /\ (IsOnlyEncoding /\ op = "convert_ffi_expression_to_swift_type")
       => (out.tag = "ok"
           /\ Render(out.val) =
                <<"{ let _ = ", expr, "; return ", swift_name_string(decl) \o "()", " }()">>)

\* the entry of the i-th field in the ABI literal built from the native value
EntryRust(i) ==
  (IF decl.fields.shape = "Named" THEN <<FieldIdent(i - 1), ":">> ELSE <<>>)
    \o BT_convert_rust_expression_to_ffi_type(
         decl.fields.tys[i],
         <<"val", ".",
           IF decl.fields.shape = "Named" THEN FieldIdent(i - 1) ELSE ToString(i - 1)>>)

\* the label of the i-th field in the ABI literal built from the client value
LabelSwift(i) ==
  IF decl.fields.shape = "Named" THEN FieldIdent(i - 1) ELSE "_" \o ToString(i - 1)

\* C7: the ABI literal of the native -> ABI method and of the client -> ABI
\* conversion holds the single placeholder field exactly when the struct has
\* no fields, and otherwise one entry per declared field and no placeholder;
\* the reverse conversions of a struct without fields build the empty value
\* and read neither the source nor the placeholder.
PlaceholderIffNoFields ==
  /\ (op = "generate_into_ffi_repr_method" /\ out.tag = "ok")
       => /\ (\E i \in 1..Len(out.val.args) : out.val.args[i] = PlaceholderRust)
               <=> NumFields = 0
          /\ NumFields = 0 => out.val.args = <<PlaceholderRust>>
          /\ NumFields > 0
               => /\ Len(out.val.args) = NumFields
                  /\ \A i \in 1..NumFields : out.val.args[i] = EntryRust(i)
  /\ (op = "convert_swift_to_ffi_repr" /\ out.tag = "ok")
       => /\ (\E i \in 1..Len(out.val.args) : out.val.args[i] = PlaceholderSwift)
               <=> NumFields = 0
          /\ NumFields = 0 => out.val.args = <<PlaceholderSwift>>
          /\ NumFields > 0
               => /\ Len(out.val.args) = NumFields
                  /\ \A i \in 1..NumFields : out.val.args[i][1] = LabelSwift(i)
  /\ (op \in {"convert_ffi_repr_to_rust", "convert_ffi_expression_to_swift"}
        /\ out.tag = "ok" /\ NumFields = 0)
       => /\ out.val.args = <<>>
          /\ \A k \in 1..Len(Render(out.val)) :
               Render(out.val)[k] \notin {expr, "val", "_private", "_private: 123"}

\* C7 witness: the native -> ABI method of a struct with an empty named
\* field list was generated, with the placeholder
PlaceholderWitness ==
  /\ op = "generate_into_ffi_repr_method"
  /\ decl.fields.shape = "Named"
  /\ NumFields = 0
  /\ out.val.args = <<PlaceholderRust>>

\* C8: every variant of the generated ABI enum has a payload slot: one
\* placeholder byte for a unit variant, the k ABI field types for a
\* positional variant of k fields, and never an empty payload.
EveryFfiVariantHasPayload ==
  (op = "generate_shared_enum_tokens" /\ out.tag = "Some")
    => \A i \in 1..Len(decl.variants) :
         LET v == decl.variants[i]
             f == out.val.enum_ffi_variants[i]
         IN /\ f.pre[1] = v.name
            /\ v.fields.shape = "Unit" => f.args = << <<"u8">> >>
            /\ v.fields.shape = "Unnamed"
                 => /\ Len(f.args) = Len(v.fields.tys)
                    /\ \A j \in 1..Len(v.fields.tys) :
                         f.args[j] = BT_to_ffi_compatible_rust_type(v.fields.tys[j])
            /\ Len(f.args) >= 1

\* no variant of the declared enum carries payload data
NoVariantHasData == \A i \in 1..Len(decl.variants) : Len(decl.variants[i].fields.tys) = 0

\* C9: a generated enum derives Copy and Clone if and only if no variant
\* carries payload data, and gets the collection-support functions under
\* exactly that condition; with a data-bearing variant it gets neither.
DerivesIffNoData ==
  (op = "generate_shared_enum_tokens" /\ out.tag = "Some")
    => /\ out.val.automatic_derives = <<"Copy", "Clone">> <=> NoVariantHasData
       /\ out.val.vec_support # <<>> <=> NoVariantHasData
       /\ ~NoVariantHasData
            => (out.val.automatic_derives = <<>> /\ out.val.vec_support = <<>>)

\* C9 witness: an enum with a unit and a data-bearing variant was generated
DerivesWitness ==
  /\ op = "generate_shared_enum_tokens"
  /\ out.tag = "Some"
  /\ \E i, j \in 1..Len(decl.variants) :
       /\ decl.variants[i].fields.shape = "Unit"
       /\ Len(decl.variants[j].fields.tys) > 0
  /\ out.val.automatic_derives = <<>>

\* C10: for an already declared type no definition is emitted: the enum
\* generator returns nothing, no struct definition generator returns a
\* definition, and the ABI type name referring to the struct is the
\* qualified alias, not the locally prefixed symbol.
AlreadyDeclaredEmitsNothing ==
  /\ (decl.kind = "enum" /\ decl.already_declared /\ op # "declare")
       => (op = "generate_shared_enum_tokens" /\ out = None)
  /\ (decl.kind = "struct" /\ decl.already_declared)
       => /\ op \in {"generate_custom_rust_ffi_type", "generate_custom_c_ffi_type"}
               => out = None
          /\ op = "generate_prefixed_type_name_tokens"
               => /\ out.tag = "ok"
                  /\ out.val = <<"<", "super", "::", decl.name, "as", "swift_bridge",
                                  "::", "SharedStruct", ">", "::", "FfiRepr">>
                  /\ \A k \in 1..Len(out.val) :
                       out.val[k] # SWIFT_BRIDGE_PREFIX \o decl.name

\* C10 witness: the ABI type name of an already declared struct was asked for
AlreadyDeclaredWitness ==
  /\ decl.kind = "struct"
  /\ decl.already_declared
  /\ op = "generate_prefixed_type_name_tokens"
  /\ out.tag = "ok"

\* the declared enum has a variant with named fields
DeclaresNamedVariant ==
  \E i \in 1..Len(decl.variants) : decl.variants[i].fields.shape = "Named"

TupleOperations ==
  {"to_swift_type", "swift_name_string", "ffi_name_string",
   "generate_custom_rust_ffi_type", "generate_custom_c_ffi_type",
   "convert_ffi_expression_to_rust_type", "convert_rust_expression_to_ffi_type",
   "convert_ffi_expression_to_swift_type", "convert_swift_expression_to_ffi_type",
   "contains_owned_string_recursive"}

\* C12: for a struct with is_tuple set whose field shape is Named or Unit
\* every generator operation on it aborts instead of returning output.
NonPositionalTupleAborts ==
  (IsTuple /\ decl.fields.shape \in {"Named", "Unit"} /\ op \in TupleOperations)
    => out = Panic

\* the arms of a generated match are one per declared variant, in
\* declaration order
OneArmPerVariant(arms) ==
  /\ Len(arms) = Len(decl.variants)
  /\ \A i \in 1..Len(decl.variants) : arms[i].pat = decl.variants[i].name
  /\ \A i \in 1..Len(decl.variants) :
       Cardinality({k \in 1..Len(arms) : arms[k].pat = decl.variants[i].name}) = 1

\* C13: for every generated enum with n declared variants the native ->
\* ABI match and the ABI -> native match each have exactly n arms, one per
\* declared variant and in declaration order: no variant lacks an arm and
\* none has two, in either direction.
ExactlyOneArmPerVariant ==
  (op = "generate_shared_enum_tokens" /\ out.tag = "Some")
    => /\ OneArmPerVariant(out.val.convert_rust_variants_to_ffi)
       /\ OneArmPerVariant(out.val.convert_ffi_variants_to_rust)

\* C13 witness: an enum of two variants of different shapes was generated
\* with two arms in each match
OneArmWitness ==
  /\ op = "generate_shared_enum_tokens"
  /\ out.tag = "Some"
  /\ Len(decl.variants) = 2
  /\ decl.variants[1].fields.shape = "Unnamed"
  /\ decl.variants[2].fields.shape = "Unit"
  /\ Len(out.val.convert_rust_variants_to_ffi) = 2
  /\ Len(out.val.convert_ffi_variants_to_rust) = 2

\* the mangled encodings of the field-type sequences
Suffixes == {JoinStr([i \in 1..Len(tys) |-> BT_to_rust_type_path(tys[i])], "") :
               tys \in FieldLists}

\* the symbol pair of one mangled encoding: the ABI name seen by the client
\* and the interface, and the name of the native-side ABI struct
ClientSymbol(sfx) == SWIFT_BRIDGE_PREFIX \o "$tuple$" \o sfx
NativeSymbol(sfx) == SWIFT_BRIDGE_PREFIX \o "tuple_" \o sfx

\* C14: for any tuple shape the ABI name of ffi_name_string, the
\* constructor name of the client -> ABI conversion and the typedef name of
\* the interface declaration are the identical string, and the native-side
\* ABI struct name, in the definition and wherever the native -> ABI
\* conversion builds the struct, carries the same mangled suffix.
TupleSymbolSameEverywhere ==
  (IsTuple /\ op # "tuple_from")
    => \E sfx \in Suffixes :
         /\ ffi_name_string(decl) = ClientSymbol(sfx)
         /\ op = "ffi_name_string" => out = Ret(ClientSymbol(sfx))
         /\ op = "convert_swift_expression_to_ffi_type"
              => (out.tag = "ok" /\ out.val.pre = <<ClientSymbol(sfx), "(">>)
         /\ op = "generate_custom_c_ffi_type"
              => /\ out.tag = "Some"
                 /\ out.val.pre = <<"typedef struct ", ClientSymbol(sfx), " { ">>
                 /\ out.val.post = <<";", " } ", ClientSymbol(sfx), ";">>
         /\ op = "generate_custom_rust_ffi_type"
              => (out.tag = "Some" /\ out.val.pre[5] = NativeSymbol(sfx))
         /\ (op = "convert_rust_expression_to_ffi_type" /\ NumFields >= 1)
              => (out.tag = "ok" /\ out.val.pre[6] = NativeSymbol(sfx))

\* C14 witness: the interface declaration of a tuple of two different
\* types was generated
TupleSymbolWitness ==
  /\ IsTuple
  /\ op = "generate_custom_c_ffi_type"
  /\ decl.fields.tys = <<"i32", "String">>
  /\ out.tag = "Some"
  /\ out.val.pre[2] = "__swift_bridge__$tuple$i32String"

\* the field types of the declared struct that answer true to the query
OwningFields ==
  {i \in 1..NumFields : BT_contains_owned_string_recursive(decl.fields.tys[i])}

\* C15: contains_owned_string_recursive answers false for every struct
\* that is not a tuple, whatever its fields contain, and for a positional
\* tuple answers true if and only if at least one field's type answers
\* true to the same query.
OwnedStringOnlyThroughTuples ==
  (decl.kind = "struct" /\ op = "contains_owned_string_recursive")
    => /\ out.tag = "ok"
       /\ ~decl.is_tuple => out.val = FALSE
       /\ decl.is_tuple => (out.val = TRUE <=> OwningFields # {})

\* C15 witness: the query on a tuple whose second field alone owns text
OwnedStringWitness ==
  /\ IsTuple
  /\ op = "contains_owned_string_recursive"
  /\ decl.fields.tys = <<"i32", "String">>
  /\ out = Ret(TRUE)

\* the member name of the i-th (1-based) input type of a tuple
Member(i) == "_" \o ToString(i - 1)

\* C16: for every tuple built by tuple_from from n types the interface
\* declaration has exactly n members named _0 .. _(n-1) in input order,
\* the client -> ABI conversion labels argument i as _i and fills it from
\* element i of the client tuple, and the ABI -> client conversion fills
\* element i of the client tuple from member _i.
TupleMembersAgree ==
  IsTuple
    => /\ op = "generate_custom_c_ffi_type"
            => /\ out.tag = "Some"
               /\ Len(out.val.args) = NumFields
               /\ \A i \in 1..NumFields :
                    out.val.args[i] = <<BT_to_c(decl.fields.tys[i]), " " \o Member(i)>>
       /\ op = "convert_swift_expression_to_ffi_type"
            => /\ out.tag = "ok"
               /\ Len(out.val.args) = NumFields
               /\ \A i \in 1..NumFields :
                    out.val.args[i] =
                      <<Member(i) \o ": ">>
                        \o BT_convert_swift_expression_to_ffi_type(
                             decl.fields.tys[i], <<expr, "." \o ToString(i - 1)>>)
       /\ (op = "convert_ffi_expression_to_swift_type" /\ NumFields >= 1)
            => /\ out.tag = "ok"
               /\ Len(out.val.args) = NumFields
               /\ \A i \in 1..NumFields :
                    out.val.args[i] =
                      BT_convert_ffi_value_to_swift_value(
                        decl.fields.tys[i], <<"val." \o Member(i)>>)

\* C16 witness: the client -> ABI conversion of a tuple of three types, the
\* last two different, was generated
TupleMembersWitness ==
  /\ IsTuple
  /\ op = "convert_swift_expression_to_ffi_type"
  /\ decl.fields.tys = <<"i32", "String", "A">>
  /\ out.tag = "ok"
  /\ out.val.args[3] = <<"_2: ", expr, ".2", ".intoFfiRepr()">>

====
